---- MODULE Spec2Model ----
\* Model of parse-issue-bot (src/src/main.js): a GitHub action that validates a
\* newly opened / reopened / edited issue against the issue templates and keeps
\* one status comment on the submission.
\*
\* Text is modelled structurally. An item body is a sequence of lines, each a
\* record (a headline line, a checkbox line, a line of free text); a comment
\* body is a sequence of parts (paragraphs). String.includes and RegExp.test
\* are computed on that structure.
EXTENDS Integers, Sequences, FiniteSets, TLC

\* ------------------------------------------------------------------ bounds

\* Comments the users write at most.
MaxUserComments == 2
\* Comments and reviews the invocations create at most.
MaxBotComments == 2
\* Comments per page of the issue-comment listing.
PerPage == 2
\* Comments the users have written before the first postComment call of
\* SpecLookup, at most.
MaxListed == 4

\* ------------------------------------------------------- program constants

Undefined == "undefined"

ItemType == [pr |-> "pr", issue |-> "issue"]

ItemIssueType == [bug |-> "bug", feature |-> "feature"]

\* '<!-- parse-issue-bot-meta-tag-id -->'
messageIdMetaTag == "<!-- parse-issue-bot-meta-tag-id -->"

\* The text postComment searches for.
BotSearchText == "parse-issue-bot"

\* A headline pattern '### <title>'.
H(title) == [kind |-> "headline", hashes |-> 3, title |-> title]

\* A checkbox pattern '- \\[ ?[xX] ?\\] <label>'.
CB(label) == [kind |-> "checkbox", label |-> label]

template ==
  [bug |->
     [headlines |-> << H("New Issue Checklist"), H("Issue Description"),
                       H("Steps to reproduce"), H("Actual Outcome"),
                       H("Expected Outcome"), H("Environment") >>,
      checkboxes |-> << CB("I am not disclosing a"), CB("I am not just asking a"),
                        CB("I have searched through"), CB("I can reproduce the issue") >>],
   feature |->
     [headlines |-> << H("New Feature / Enhancement Checklist"), H("Current Limitation"),
                       H("Feature / Enhancement Description"), H("Example Use Case"),
                       H("Alternatives / Workarounds") >>,
      checkboxes |-> << CB("I am not disclosing a"), CB("I am not just asking a"),
                        CB("I have searched through") >>],
   common |-> [placeholder |-> "FILL_THIS_OUT"]]

\* ------------------------------------------------------------ item bodies

\* The line '<hashes times #> <title>'.
HeadlineLine(hashes, title) == [kind |-> "headline", hashes |-> hashes, title |-> title]

\* The line '- [<lsp spaces><mark><rsp spaces>] <label> ...'; mark "" is no mark.
CheckboxLine(lsp, mark, rsp, label) ==
  [kind |-> "checkbox", lsp |-> lsp, mark |-> mark, rsp |-> rsp, label |-> label]

\* A line of free text.
TextLine(words) == [kind |-> "text", words |-> words]

\* Whether one line contains a match of the pattern (a headline pattern has no
\* regular-expression operator in it, so it matches as a substring: a line with
\* more '#' contains it too; a checkbox pattern allows one optional space on
\* each side of an x or X).
LineMatches(pattern, line) ==
  IF pattern.kind = "headline"
  THEN /\ line.kind = "headline"
       /\ line.hashes >= pattern.hashes
       /\ line.title = pattern.title
  ELSE /\ line.kind = "checkbox"
       /\ line.label = pattern.label
       /\ line.mark \in {"x", "X"}
       /\ line.lsp <= 1
       /\ line.rsp <= 1

\* new RegExp(pattern.regex).test(text), and text.includes(pattern) for a headline.
RegExpTest(pattern, text) == \E i \in DOMAIN text : LineMatches(pattern, text[i])

\* text.includes(word) for a word of free text.
IncludesWord(text, word) ==
  \E i \in DOMAIN text : text[i].kind = "text" /\ text[i].words = word

validatePattern(patterns, text) ==
  [i \in DOMAIN patterns |-> [regex |-> patterns[i], ok |-> RegExpTest(patterns[i], text)]]

\* validatePattern(patterns, text).filter(v => !v.ok).length > 0
ValidationFailed(patterns, text) ==
  LET validations == validatePattern(patterns, text)
  IN  Len(SelectSeq(validations, LAMBDA v : ~v.ok)) > 0

\* The classification trying the feature template first.
getItemIssueTypeFeatureFirst(itemBody) ==
  IF RegExpTest(template.feature.headlines[1], itemBody)
  THEN ItemIssueType.feature
  ELSE IF RegExpTest(template.bug.headlines[1], itemBody)
       THEN ItemIssueType.bug
       ELSE Undefined

getItemIssueType(itemBody) ==
  IF RegExpTest(template.bug.headlines[1], itemBody)
  THEN ItemIssueType.bug
  ELSE IF RegExpTest(template.feature.headlines[1], itemBody)
       THEN ItemIssueType.feature
       ELSE Undefined

\* A payload field that is an object with a body (payload.issue,
\* payload.pull_request), or undefined. An empty body is '' or null.
Submission(body) == [defined |-> TRUE, body |-> body]
NoSubmission == [defined |-> FALSE, body |-> << >>]

\* The body text, or the empty text where the function returns undefined: its
\* one caller takes getItemBody(payload) || ''.
getItemBody(payload) ==
  IF payload.issue.defined /\ payload.issue.body # << >>
  THEN payload.issue.body
  ELSE IF payload.pull_request.defined /\ payload.pull_request.body # << >>
       THEN payload.pull_request.body
       ELSE << >>

\* ---------------------------------------------------------- comment bodies

\* The paragraphs composeMessage can append.
Greeting(itemName) == [part |-> "greeting", itemName |-> itemName]
TemplateNotice  == [part |-> "requireTemplate"]
CheckboxNotice  == [part |-> "requireCheckboxes"]
SecurityReminder == [part |-> "securityReminder"]
SuggestPrNote   == [part |-> "suggestPr"]
ExcitedNote     == [part |-> "excitedFeature"]
BetaNote        == [part |-> "betaNote"]
MetaTag         == [part |-> "metaTag", text |-> messageIdMetaTag]

\* What a user writes: a comment naming the bot, and one that does not.
UserMention == [part |-> "user", text |-> "parse-issue-bot"]
UserPlain   == [part |-> "user", text |-> "thanks"]

\* part.includes(text): the meta tag contains the searched text and itself; a
\* user's words contain what they spell; no other paragraph contains either.
PartIncludes(part, text) ==
  CASE part.part = "metaTag" -> text \in {messageIdMetaTag, BotSearchText}
    [] part.part = "user"    -> text = part.text
    [] OTHER                 -> FALSE

\* body.includes(text)
BodyIncludes(body, text) == \E i \in DOMAIN body : PartIncludes(body[i], text)

\* What a call yields that throws TypeError 'Cannot convert undefined or null to
\* object' instead of returning a message.
TypeErrorThrown ==
  << [part |-> "throw", text |-> "Cannot convert undefined or null to object"] >>

\* Function(...Object.keys(params), `return \`${message}\``)(...): with params
\* undefined (the payload before validateEvent has set it) Object.keys throws;
\* otherwise the message is evaluated as a template literal over the payload's
\* fields, and the message texts hold no `${...}` and no backtick, so the
\* result is the text itself.
fillPlaceholders(message, params) ==
  IF params = [action |-> "none", issue |-> [defined |-> FALSE, body |-> << >>],
               pull_request |-> [defined |-> FALSE, body |-> << >>],
               sender |-> FALSE, number |-> 1]
  THEN TypeErrorThrown
  ELSE message

\* The flags object; a flag left out is undefined, that is false.
Flags(requireCheckboxes, requireTemplate, suggestPr, excitedFeature) ==
  [requireCheckboxes |-> requireCheckboxes, requireTemplate |-> requireTemplate,
   suggestPr |-> suggestPr, excitedFeature |-> excitedFeature]

\* composeMessage without the security reminder after the checkbox notice.
composeMessageNoReminder(flags, itemType, payload) ==
  LET itemName == IF itemType = ItemType.issue THEN "issue" ELSE "pull request"
      m1 == << MetaTag, Greeting(itemName) >>
      m2 == IF flags.requireTemplate THEN m1 \o << TemplateNotice >> ELSE m1
      m3 == IF flags.requireCheckboxes THEN m2 \o << CheckboxNotice >> ELSE m2
      m4 == IF flags.suggestPr THEN m3 \o << SuggestPrNote >> ELSE m3
      m5 == IF flags.excitedFeature THEN m4 \o << ExcitedNote >> ELSE m4
  IN  fillPlaceholders(m5 \o << BetaNote >>, payload)

composeMessage(flags, itemType, payload) ==
  LET itemName == IF itemType = ItemType.issue THEN "issue" ELSE "pull request"
      m0 == << MetaTag >>
      m1 == m0 \o << Greeting(itemName) >>
      m2 == IF flags.requireTemplate THEN m1 \o << TemplateNotice >> ELSE m1
      m3 == IF flags.requireCheckboxes
            THEN m2 \o << CheckboxNotice >> \o << SecurityReminder >>
            ELSE m2
      m4 == IF flags.suggestPr THEN m3 \o << SuggestPrNote >> ELSE m3
      m5 == IF flags.excitedFeature THEN m4 \o << ExcitedNote >> ELSE m4
      m6 == m5 \o << BetaNote >>
  IN  fillPlaceholders(m6, payload)

\* ------------------------------------------------------------------ state

\* An invocation is one process running main(); Procs are the invocations that
\* can be in flight.
Procs == {1, 2}

VARIABLES
  comments,   \* the platform's issue comments, in ascending creation order
  reviews,    \* the platform's pull-request reviews, in ascending creation order
  nextId,     \* the identifier the platform gives the next comment or review
  pc,         \* where each invocation stands: idle, find, write, done
  payload,    \* the triggering event (context.payload)
  itemType,   \* issue, pr or undefined
  item,       \* context.issue: the submission's number (0: not set)
  itemBody,   \* the submission's body text
  message,    \* the argument of the postComment call in progress
  page,       \* the page of the comment listing findComment fetches next
  found,      \* what findComment returned: << >> or << the comment's id >>
  checks,     \* the checks this invocation evaluated, in order
  writes,     \* the platform writes this invocation called, in order
  outcome,    \* running, success (main returned) or failed (core.setFailed)
  failure,    \* the message given to core.setFailed
  lastPost,   \* the postComment call that returned last in this process, if any
  flags       \* the flags a caller passed to composeMessage for message, if one did:
              \* << >> or << the flags >>

vars == << comments, reviews, nextId, pc, payload, itemType, item, itemBody,
           message, page, found, checks, writes, outcome, failure, lastPost, flags >>

platform == << comments, reviews, nextId >>

Payload(action, issue, pull_request, sender, number) ==
  [action |-> action, issue |-> issue, pull_request |-> pull_request,
   sender |-> sender, number |-> number]

NoPayload == Payload("none", NoSubmission, NoSubmission, FALSE, 1)

\* A fresh process: no module variable is set.
InitProcs ==
  /\ pc = [p \in Procs |-> "idle"]
  /\ payload = [p \in Procs |-> NoPayload]
  /\ itemType = [p \in Procs |-> Undefined]
  /\ item = [p \in Procs |-> 0]
  /\ itemBody = [p \in Procs |-> << >>]
  /\ message = [p \in Procs |-> << >>]
  /\ page = [p \in Procs |-> 0]
  /\ found = [p \in Procs |-> << >>]
  /\ checks = [p \in Procs |-> << >>]
  /\ writes = [p \in Procs |-> << >>]
  /\ outcome = [p \in Procs |-> "success"]
  /\ failure = [p \in Procs |-> ""]
  /\ lastPost = [p \in Procs |-> << >>]
  /\ flags = [p \in Procs |-> << >>]

Init ==
  /\ comments = << >>
  /\ reviews = << >>
  /\ nextId = 1
  /\ InitProcs

\* ------------------------------------------------------------- validation

\* validateEvent without the check of the action.
validateEventAnyAction(pl) ==
  LET type == IF pl.issue.defined
              THEN ItemType.issue
              ELSE IF pl.pull_request.defined THEN ItemType.pr ELSE Undefined
  IN  IF type = Undefined
      THEN [result |-> "false", itemType |-> type, item |-> 0, itemBody |-> << >>]
      ELSE IF ~pl.sender
      THEN [result |-> "throw", itemType |-> type, item |-> 0, itemBody |-> << >>]
      ELSE [result |-> "true", itemType |-> type, item |-> pl.number,
            itemBody |-> getItemBody(pl)]

\* validateEvent without the check of the sender.
validateEventAnySender(pl) ==
  LET type == IF pl.issue.defined
              THEN ItemType.issue
              ELSE IF pl.pull_request.defined THEN ItemType.pr ELSE Undefined
  IN  IF pl.action \notin {"opened", "reopened", "edited"}
      THEN [result |-> "false", itemType |-> Undefined, item |-> 0, itemBody |-> << >>]
      ELSE IF type = Undefined
      THEN [result |-> "false", itemType |-> type, item |-> 0, itemBody |-> << >>]
      ELSE [result |-> "true", itemType |-> type, item |-> pl.number,
            itemBody |-> getItemBody(pl)]

\* validateEvent: what it returns ("false", "true", or "throw" for the thrown
\* error) and the module variables it has set by then (item 0: not set).
validateEvent(pl) ==
  LET type == IF pl.issue.defined
              THEN ItemType.issue
              ELSE IF pl.pull_request.defined THEN ItemType.pr ELSE Undefined
  IN  IF pl.action \notin {"opened", "reopened", "edited"}
      THEN [result |-> "false", itemType |-> Undefined, item |-> 0, itemBody |-> << >>]
      ELSE IF type = Undefined
      THEN [result |-> "false", itemType |-> type, item |-> 0, itemBody |-> << >>]
      ELSE IF ~pl.sender
      THEN [result |-> "throw", itemType |-> type, item |-> 0, itemBody |-> << >>]
      ELSE [result |-> "true", itemType |-> type, item |-> pl.number,
            itemBody |-> getItemBody(pl)]

\* validateIssueTemplate checking the subtype only, not the headlines.
validateIssueTemplateTypeOnly(type, body, pl) ==
  IF getItemIssueType(body) = Undefined
  THEN [ok |-> FALSE, checked |-> FALSE,
        message |-> composeMessage(Flags(FALSE, TRUE, FALSE, FALSE), type, pl)]
  ELSE [ok |-> TRUE, checked |-> FALSE, message |-> << >>]

\* validateIssueTemplate taking a body of undetermined subtype for a bug report
\* and checking its headlines.
validateIssueTemplateDefaultBug(type, body, pl) ==
  LET issueType == IF getItemIssueType(body) = Undefined
                   THEN ItemIssueType.bug ELSE getItemIssueType(body)
      msg == composeMessage(Flags(FALSE, TRUE, FALSE, FALSE), type, pl)
  IN  IF ValidationFailed(template[issueType].headlines, body)
      THEN [ok |-> FALSE, checked |-> TRUE, message |-> msg]
      ELSE [ok |-> TRUE, checked |-> TRUE, message |-> << >>]

\* validateIssueTemplate: ok is what it returns; when not ok it has called
\* postComment(message) before returning; checked is whether it evaluated the
\* headline patterns (validatePattern).
validateIssueTemplate(type, body, pl) ==
  LET issueType == getItemIssueType(body)
      msg == composeMessage(Flags(FALSE, TRUE, FALSE, FALSE), type, pl)
  IN  IF issueType = Undefined
      THEN [ok |-> FALSE, checked |-> FALSE, message |-> msg]
      ELSE IF ValidationFailed(template[issueType].headlines, body)
           THEN [ok |-> FALSE, checked |-> TRUE, message |-> msg]
           ELSE [ok |-> TRUE, checked |-> TRUE, message |-> << >>]

\* validateIssueCheckboxes: as validateIssueTemplate, for the checkbox patterns.
validateIssueCheckboxes(type, body, pl) ==
  LET issueType == getItemIssueType(body)
  IN  IF issueType = Undefined
      THEN [ok |-> FALSE, checked |-> FALSE,
            message |-> composeMessage(Flags(FALSE, TRUE, FALSE, FALSE), type, pl)]
      ELSE IF ValidationFailed(template[issueType].checkboxes, body)
           THEN [ok |-> FALSE, checked |-> TRUE,
                 message |-> composeMessage(Flags(TRUE, FALSE, FALSE, FALSE), type, pl)]
           ELSE [ok |-> TRUE, checked |-> TRUE, message |-> << >>]

\* The success comment with the pull-request suggestion for every subtype.
SuccessMessageAlwaysSuggestPr(type, body, pl) ==
  LET itemIssueType == getItemIssueType(body)
  IN  composeMessage(Flags(FALSE, FALSE, TRUE,
                           itemIssueType = ItemIssueType.feature), type, pl)

\* The success comment of main.
SuccessMessage(type, body, pl) ==
  LET itemIssueType == getItemIssueType(body)
  IN  composeMessage(Flags(FALSE, FALSE, itemIssueType = ItemIssueType.bug,
                           itemIssueType = ItemIssueType.feature), type, pl)

\* main up to its first platform call: the checks it evaluates, in order, and
\* the message of the one postComment call it makes (post), if it makes one.
MainPlan(pl) ==
  LET ev == validateEvent(pl)
      t  == validateIssueTemplate(ev.itemType, ev.itemBody, pl)
      c  == validateIssueCheckboxes(ev.itemType, ev.itemBody, pl)
      tc == IF t.checked THEN << "headlines" >> ELSE << >>
      cc == IF c.checked THEN << "checkboxes" >> ELSE << >>
  IN  IF ev.result # "true" \/ ev.itemType # ItemType.issue
      THEN [post |-> FALSE, message |-> << >>, checks |-> << >>]
      ELSE IF ~t.ok
      THEN [post |-> TRUE, message |-> t.message, checks |-> tc]
      ELSE IF ~c.ok
      THEN [post |-> TRUE, message |-> c.message, checks |-> tc \o cc]
      ELSE [post |-> TRUE, message |-> SuccessMessage(ev.itemType, ev.itemBody, pl),
            checks |-> tc \o cc]

\* --------------------------------------------------------------- platform

\* issues.listComments: the issue comments of one submission, oldest first.
\* Reviews of a pull request are not issue comments and are not listed.
listComments(number) == SelectSeq(comments, LAMBDA c : c.number = number)

Min(a, b) == IF a <= b THEN a ELSE b

\* One page of a listing (pages count from 0).
PageOf(list, n) == SubSeq(list, n * PerPage + 1, Min(Len(list), (n + 1) * PerPage))

\* A lookup that takes the last comment of the page that contains the text.
findInPageLast(pageComments, text) ==
  LET hits == SelectSeq(pageComments, LAMBDA c : BodyIncludes(c.body, text))
  IN  IF hits = << >> THEN << >> ELSE << hits[Len(hits)] >>

\* A lookup that finds nothing, whatever the page holds.
findInPageMiss(pageComments, text) == << >>

\* comments.find(comment => comment.body.includes(text)) on one page: << >> or
\* the first comment of the page that contains the text.
findInPage(pageComments, text) ==
  LET hits == SelectSeq(pageComments, LAMBDA c : BodyIncludes(c.body, text))
  IN  IF hits = << >> THEN << >> ELSE << Head(hits) >>

\* A postComment call: the submission it is for and its argument.
Call(type, number, msg) == [itemType |-> type, number |-> number, message |-> msg]

\* A write the invocation called.
Write(op, kind, id, body, ok) ==
  [op |-> op, kind |-> kind, id |-> id, body |-> body, ok |-> ok]

\* The listing with the body of every comment replaced.
WithBodyEvery(list, id, body) ==
  [i \in DOMAIN list |-> [list[i] EXCEPT !.body = body]]

\* The listing with the body of the comment of that identifier replaced.
WithBody(list, id, body) ==
  [i \in DOMAIN list |-> IF list[i].id = id THEN [list[i] EXCEPT !.body = body] ELSE list[i]]

HasId(list, id) == \E i \in DOMAIN list : list[i].id = id

\* Invocations between their lookup and their write.
InFlight == {p \in Procs : pc[p] \in {"find", "write"}}

ByUser(list, user) == SelectSeq(list, LAMBDA c : c.user = user)

\* A postComment call for that submission stays within MaxBotComments: it will
\* update a comment that is there, or one more can be created beside those the
\* invocations in flight may create.
Room(number) ==
  \/ findInPage(listComments(number), BotSearchText) # << >>
  \/ Len(ByUser(comments, "bot")) + Len(reviews) + Cardinality(InFlight) < MaxBotComments

\* postComment creating a comment whatever findComment returned.
CommentNeverFound(f) == FALSE

\* postComment's branch, if (comment): update a comment that was found, create
\* one otherwise.
CommentFound(f) == f # << >>

\* ---------------------------------------------------------------- actions

\* An event starts invocation p: main runs up to its first platform call.
Main(p, pl) ==
  LET ev   == validateEvent(pl)
      plan == MainPlan(pl)
  IN  /\ pc[p] \in {"idle", "done"}
      /\ plan.post => Room(ev.item)
      /\ payload' = [payload EXCEPT ![p] = pl]
      /\ itemType' = [itemType EXCEPT ![p] = ev.itemType]
      /\ item' = [item EXCEPT ![p] = ev.item]
      /\ itemBody' = [itemBody EXCEPT ![p] = ev.itemBody]
      /\ message' = [message EXCEPT ![p] = plan.message]
      /\ checks' = [checks EXCEPT ![p] = plan.checks]
      /\ page' = [page EXCEPT ![p] = 0]
      /\ found' = [found EXCEPT ![p] = << >>]
      /\ writes' = [writes EXCEPT ![p] = << >>]
      /\ pc' = [pc EXCEPT ![p] = IF plan.post THEN "find" ELSE "done"]
      /\ outcome' = [outcome EXCEPT ![p] = IF ev.result = "throw" THEN "failed"
                                            ELSE IF plan.post THEN "running"
                                            ELSE "success"]
      /\ failure' = [failure EXCEPT ![p] = IF ev.result = "throw"
                                            THEN "No sender provided by GitHub."
                                            ELSE ""]
      /\ lastPost' = [lastPost EXCEPT ![p] = << >>]
      /\ flags' = [flags EXCEPT ![p] = << >>]
      /\ UNCHANGED platform

\* findComment fetches the next page of the listing and searches it.
FindComment(p) ==
  LET list == listComments(item[p])
      hit  == findInPage(PageOf(list, page[p]), BotSearchText)
  IN  /\ pc[p] = "find"
      /\ IF hit # << >>
         THEN /\ found' = [found EXCEPT ![p] = << hit[1].id >>]
              /\ pc' = [pc EXCEPT ![p] = "write"]
              /\ UNCHANGED page
         ELSE IF Len(list) > (page[p] + 1) * PerPage
         THEN /\ page' = [page EXCEPT ![p] = page[p] + 1]
              /\ UNCHANGED << found, pc >>
         ELSE /\ found' = [found EXCEPT ![p] = << >>]
              /\ pc' = [pc EXCEPT ![p] = "write"]
              /\ UNCHANGED page
      /\ UNCHANGED << platform, payload, itemType, item, itemBody, message, checks,
                      writes, outcome, failure, lastPost, flags >>

\* The listing call fails: the error reaches main's catch.
ListFails(p) ==
  /\ pc[p] = "find"
  /\ pc' = [pc EXCEPT ![p] = "done"]
  /\ outcome' = [outcome EXCEPT ![p] = "failed"]
  /\ failure' = [failure EXCEPT ![p] = "listComments failed"]
  /\ UNCHANGED << platform, payload, itemType, item, itemBody, message, page, found,
                  checks, writes, lastPost, flags >>

\* postComment found no comment: createComment.
CreateComment(p) ==
  /\ pc[p] = "write"
  /\ ~CommentFound(found[p])
  /\ IF itemType[p] = ItemType.issue
     THEN /\ comments' = Append(comments, [id |-> nextId, number |-> item[p],
                                           user |-> "bot", body |-> message[p]])
          /\ UNCHANGED reviews
     ELSE /\ reviews' = Append(reviews, [id |-> nextId, number |-> item[p],
                                         user |-> "bot", body |-> message[p]])
          /\ UNCHANGED comments
  /\ nextId' = nextId + 1
  /\ writes' = [writes EXCEPT ![p] =
       Append(@, Write("create", IF itemType[p] = ItemType.issue THEN "comment" ELSE "review",
                       nextId, message[p], TRUE))]
  /\ pc' = [pc EXCEPT ![p] = "done"]
  /\ outcome' = [outcome EXCEPT ![p] = "success"]
  /\ lastPost' = [lastPost EXCEPT ![p] = << Call(itemType[p], item[p], message[p]) >>]
  /\ UNCHANGED << payload, itemType, item, itemBody, message, page, found, checks, failure,
                  flags >>

\* postComment found a comment: updateComment with its identifier. A review
\* update with an identifier that is no review of the pull request fails.
UpdateComment(p) ==
  LET id == found[p][1]
      isIssue == itemType[p] = ItemType.issue
      ok == IF isIssue
            THEN HasId(comments, id)
            ELSE \E i \in DOMAIN reviews : reviews[i].id = id /\ reviews[i].number = item[p]
  IN  /\ pc[p] = "write"
      /\ CommentFound(found[p])
      /\ comments' = IF isIssue THEN WithBody(comments, id, message[p]) ELSE comments
      /\ reviews' = IF isIssue THEN reviews ELSE WithBody(reviews, id, message[p])
      /\ writes' = [writes EXCEPT ![p] =
           Append(@, Write("update", IF isIssue THEN "comment" ELSE "review",
                           id, message[p], ok))]
      /\ pc' = [pc EXCEPT ![p] = "done"]
      /\ outcome' = [outcome EXCEPT ![p] = IF ok THEN "success" ELSE "failed"]
      /\ failure' = [failure EXCEPT ![p] = IF ok THEN "" ELSE "Not Found"]
      /\ lastPost' = [lastPost EXCEPT ![p] =
           IF ok THEN << Call(itemType[p], item[p], message[p]) >> ELSE @]
      /\ UNCHANGED << nextId, payload, itemType, item, itemBody, message, page, found,
                      checks, flags >>

\* The create or update call fails and the error is swallowed: the invocation
\* ends as a success.
WriteFailsSwallowed(p) ==
  /\ pc[p] = "write"
  /\ writes' = [writes EXCEPT ![p] =
       Append(@, Write(IF found[p] = << >> THEN "create" ELSE "update",
                       IF itemType[p] = ItemType.issue THEN "comment" ELSE "review",
                       IF found[p] = << >> THEN 0 ELSE found[p][1], message[p], FALSE))]
  /\ pc' = [pc EXCEPT ![p] = "done"]
  /\ outcome' = [outcome EXCEPT ![p] = "success"]
  /\ failure' = [failure EXCEPT ![p] = ""]
  /\ UNCHANGED << platform, payload, itemType, item, itemBody, message, page, found,
                  checks, lastPost, flags >>

\* The create or update call fails: the error reaches main's catch.
WriteFails(p) ==
  /\ pc[p] = "write"
  /\ writes' = [writes EXCEPT ![p] =
       Append(@, Write(IF found[p] = << >> THEN "create" ELSE "update",
                       IF itemType[p] = ItemType.issue THEN "comment" ELSE "review",
                       IF found[p] = << >> THEN 0 ELSE found[p][1], message[p], FALSE))]
  /\ pc' = [pc EXCEPT ![p] = "done"]
  /\ outcome' = [outcome EXCEPT ![p] = "failed"]
  /\ failure' = [failure EXCEPT ![p] = "write failed"]
  /\ UNCHANGED << platform, payload, itemType, item, itemBody, message, page, found,
                  checks, lastPost, flags >>

\* A user comments on a submission, at any moment.
UserComment(number, body) ==
  /\ Len(ByUser(comments, "user")) < MaxUserComments
  /\ comments' = Append(comments, [id |-> nextId, number |-> number,
                                   user |-> "user", body |-> body])
  /\ nextId' = nextId + 1
  /\ UNCHANGED << reviews, pc, payload, itemType, item, itemBody, message, page, found,
                  checks, writes, outcome, failure, lastPost, flags >>

\* A caller calls postComment(msg) for a submission, in a process whose
\* module variables name that submission.
PostComment(p, type, number, msg) ==
  /\ pc[p] \in {"idle", "done"}
  /\ Room(number)
  /\ itemType' = [itemType EXCEPT ![p] = type]
  /\ item' = [item EXCEPT ![p] = number]
  /\ message' = [message EXCEPT ![p] = msg]
  /\ page' = [page EXCEPT ![p] = 0]
  /\ found' = [found EXCEPT ![p] = << >>]
  /\ writes' = [writes EXCEPT ![p] = << >>]
  /\ pc' = [pc EXCEPT ![p] = "find"]
  /\ outcome' = [outcome EXCEPT ![p] = "running"]
  /\ failure' = [failure EXCEPT ![p] = ""]
  /\ flags' = [flags EXCEPT ![p] = << >>]
  /\ UNCHANGED << platform, payload, itemBody, checks, lastPost >>

\* A caller composes a message with the given flags and calls postComment with
\* it, as main does for its success comment, inside main's try block. In a
\* process whose payload is not set composeMessage throws, and the catch ends
\* the invocation before postComment is called.
Compose(p, f, type, number) ==
  LET msg == composeMessage(f, type, payload[p])
      threw == msg = TypeErrorThrown
  IN  /\ pc[p] \in {"idle", "done"}
      /\ Room(number)
      /\ itemType' = [itemType EXCEPT ![p] = type]
      /\ item' = [item EXCEPT ![p] = number]
      /\ flags' = [flags EXCEPT ![p] = << f >>]
      /\ message' = [message EXCEPT ![p] = IF threw THEN << >> ELSE msg]
      /\ page' = [page EXCEPT ![p] = 0]
      /\ found' = [found EXCEPT ![p] = << >>]
      /\ writes' = [writes EXCEPT ![p] = << >>]
      /\ pc' = [pc EXCEPT ![p] = IF threw THEN "done" ELSE "find"]
      /\ outcome' = [outcome EXCEPT ![p] = IF threw THEN "failed" ELSE "running"]
      /\ failure' = [failure EXCEPT ![p] = IF threw THEN TypeErrorThrown[1].text ELSE ""]
      /\ UNCHANGED << platform, payload, itemBody, checks, lastPost >>

\* ----------------------------------------------------------------- inputs

\* The numbers of the submissions of the repository: an issue and a pull
\* request.
Items == {1, 2}
KindOf(number) == IF number = 1 THEN ItemType.issue ELSE ItemType.pr

\* The indices of S below n + 1, ascending.
Indices(n, S) == SelectSeq([i \in 1 .. n |-> i], LAMBDA i : i \in S)

\* The headline lines of a template whose indices are in S, each with that
\* many '#'.
HeadlinesOf(tpl, S, hashes) ==
  LET hs  == template[tpl].headlines
      idx == Indices(Len(hs), S)
  IN  [k \in DOMAIN idx |-> HeadlineLine(hashes, hs[idx[k]].title)]

\* The four checklist lines: those in checked are marked in the given style,
\* the others are '- [ ] ...'.
CheckboxesOf(checked, style) ==
  LET cs == template.bug.checkboxes
  IN  [i \in DOMAIN cs |->
         IF i \in checked
         THEN CheckboxLine(style.lsp, style.mark, style.rsp, cs[i].label)
         ELSE CheckboxLine(1, "", 0, cs[i].label)]

Style(lsp, mark, rsp) == [lsp |-> lsp, mark |-> mark, rsp |-> rsp]

\* A body: headlines of the bug template, headlines of the feature template,
\* the checklist, and a line of text that is filled in or still the placeholder.
BodyOf(bugHeads, featureHeads, hashes, checked, style, placeholder) ==
  HeadlinesOf("bug", bugHeads, hashes) \o HeadlinesOf("feature", featureHeads, hashes)
    \o CheckboxesOf(checked, style)
    \o << TextLine(IF placeholder THEN template.common.placeholder ELSE "All fields filled.") >>

BugHeadSets == { {}, {1}, 1 .. 6, 1 .. 5, 2 .. 6 }
FeatureHeadSets == { {}, {1}, 1 .. 5, 2 .. 5 }
HashCounts == {2, 3, 4}
Styles == { Style(0, "x", 0), Style(0, "X", 0), Style(1, "x", 1), Style(2, "x", 0) }

\* The bodies the validation is checked on: every set of checked boxes, every
\* style of a fully checked list, every number of '#'.
Bodies ==
  { BodyOf(bh, fh, 3, ch, Style(0, "x", 0), ph) :
      bh \in BugHeadSets, fh \in FeatureHeadSets, ch \in SUBSET (1 .. 4),
      ph \in BOOLEAN }
  \cup { BodyOf(bh, fh, n, 1 .. 4, st, ph) :
          bh \in BugHeadSets, fh \in FeatureHeadSets, n \in HashCounts,
          st \in Styles, ph \in BOOLEAN }
  \cup { << >>, << TextLine("random text") >> }

\* A complete bug report, a feature request with an unchecked box, and no
\* template at all.
BugComplete == BodyOf(1 .. 6, {}, 3, 1 .. 4, Style(0, "x", 0), FALSE)
FeatureUnchecked == BodyOf({}, 1 .. 5, 3, {1, 2}, Style(0, "x", 0), FALSE)
NoTemplate == << TextLine("random text") >>

\* The issue and pull_request fields an event can carry with body b: an issue,
\* a pull request, both (the issue's body empty), neither.
IssueShape(b) == << Submission(b), NoSubmission >>
PrShape(b) == << NoSubmission, Submission(b) >>
Shapes(b) ==
  { IssueShape(b), PrShape(b), << Submission(<< >>), Submission(b) >>,
    << NoSubmission, NoSubmission >> }

PayloadsOf(actions, shapes, senders, numbers) ==
  { Payload(a, sh[1], sh[2], sn, n) :
      a \in actions, sh \in shapes, sn \in senders, n \in numbers }

\* The events of Spec: the issue and the pull request opened, reopened and
\* edited, the issue with a compliant and with non-compliant bodies.
SpecPayloads ==
  PayloadsOf({"opened", "reopened", "edited"},
             { IssueShape(BugComplete), IssueShape(FeatureUnchecked), IssueShape(NoTemplate) },
             {TRUE}, { n \in Items : KindOf(n) = ItemType.issue })
  \cup PayloadsOf({"opened", "reopened", "edited"}, { PrShape(NoTemplate) },
                  {TRUE}, { n \in Items : KindOf(n) = ItemType.pr })

\* The events of SpecEvent: every action, shape and sender with three bodies,
\* and an edited issue with every body of Bodies.
EventPayloads ==
  PayloadsOf({"opened", "reopened", "edited", "labeled"},
             UNION { Shapes(b) : b \in {BugComplete, FeatureUnchecked, NoTemplate} },
             BOOLEAN, Items)
  \cup PayloadsOf({"edited"}, { IssueShape(b) : b \in Bodies }, {TRUE}, {1})

\* The payload of a process in which validateEvent has run, for the issue
\* opened without a template.
IssueOpened == Payload("opened", Submission(NoTemplate), NoSubmission, TRUE, 1)

\* What the users of Spec and SpecPost comment.
UserBodies == { << UserMention >>, << UserPlain >> }

\* The messages a caller of postComment passes.
PostMessages(type) ==
  { composeMessage(f, type, IssueOpened) :
      f \in { Flags(FALSE, TRUE, FALSE, FALSE), Flags(FALSE, FALSE, TRUE, FALSE) } }

\* Every combination of the flags of composeMessage.
AllFlags ==
  { Flags(rc, rt, sp, ef) : rc \in BOOLEAN, rt \in BOOLEAN, sp \in BOOLEAN, ef \in BOOLEAN }

\* --------------------------------------------------------- specifications

\* Invocations of the action, one after the other, and users commenting.
Next ==
  \/ \E pl \in SpecPayloads : Main(1, pl)
  \/ FindComment(1)
  \/ ListFails(1)
  \/ CreateComment(1)
  \/ UpdateComment(1)
  \/ WriteFails(1)
  \/ \E n \in Items, b \in UserBodies : UserComment(n, b)

Spec == Init /\ [][Next]_vars

\* One invocation, for any event and body, on a submission that has no comment
\* yet or has the status comment of an earlier invocation.
InitEvent ==
  /\ comments \in { << >>,
                    << [id |-> 1, number |-> 1, user |-> "bot",
                        body |-> composeMessage(Flags(FALSE, TRUE, FALSE, FALSE),
                                                ItemType.issue, IssueOpened)] >> }
  /\ reviews = << >>
  /\ nextId = Len(comments) + 1
  /\ InitProcs

NextEvent ==
  \/ \E pl \in EventPayloads : pc[1] = "idle" /\ Main(1, pl)
  \/ FindComment(1)
  \/ ListFails(1)
  \/ CreateComment(1)
  \/ UpdateComment(1)
  \/ WriteFails(1)

SpecEvent == InitEvent /\ [][NextEvent]_vars

\* A caller calling postComment again and again, for issues and for pull
\* requests, and users commenting.
NextPost ==
  \/ \E n \in Items : \E msg \in PostMessages(KindOf(n)) : PostComment(1, KindOf(n), n, msg)
  \/ FindComment(1)
  \/ ListFails(1)
  \/ CreateComment(1)
  \/ UpdateComment(1)
  \/ WriteFails(1)
  \/ \E n \in Items, b \in UserBodies : UserComment(n, b)

SpecPost == Init /\ [][NextPost]_vars

\* A caller composing a comment with any flags and posting it on the issue,
\* again and again, and users commenting; in a process at its start, the
\* payload not set, or in one in which validateEvent has run for the issue
\* opened and has set the payload, the item's type, the item and its body.
InitCompose ==
  /\ comments = << >>
  /\ reviews = << >>
  /\ nextId = 1
  /\ pc = [p \in Procs |-> "idle"]
  /\ \E pl \in { NoPayload, IssueOpened } :
       LET ev == IF pl = NoPayload
                 THEN [itemType |-> Undefined, item |-> 0, itemBody |-> << >>]
                 ELSE validateEvent(pl)
       IN  /\ payload = [p \in Procs |-> pl]
           /\ itemType = [p \in Procs |-> ev.itemType]
           /\ item = [p \in Procs |-> ev.item]
           /\ itemBody = [p \in Procs |-> ev.itemBody]
  /\ message = [p \in Procs |-> << >>]
  /\ page = [p \in Procs |-> 0]
  /\ found = [p \in Procs |-> << >>]
  /\ checks = [p \in Procs |-> << >>]
  /\ writes = [p \in Procs |-> << >>]
  /\ outcome = [p \in Procs |-> "success"]
  /\ failure = [p \in Procs |-> ""]
  /\ lastPost = [p \in Procs |-> << >>]
  /\ flags = [p \in Procs |-> << >>]

NextCompose ==
  \/ \E n \in { i \in Items : KindOf(i) = ItemType.issue } : \E f \in AllFlags :
       Compose(1, f, KindOf(n), n)
  \/ FindComment(1)
  \/ ListFails(1)
  \/ CreateComment(1)
  \/ UpdateComment(1)
  \/ WriteFails(1)
  \/ \E n \in Items, b \in UserBodies : UserComment(n, b)

SpecCompose == InitCompose /\ [][NextCompose]_vars

\* The events of SpecRace: the issue opened or edited, with a compliant body or
\* with none of the template.
RacePayloads ==
  PayloadsOf({"opened", "edited"}, { IssueShape(BugComplete), IssueShape(NoTemplate) },
             {TRUE}, { n \in Items : KindOf(n) = ItemType.issue })

\* Two invocations for the same issue, each in its own process, their platform
\* calls interleaved in any order.
NextRace ==
  \E p \in Procs :
    \/ \E pl \in RacePayloads : pc[p] = "idle" /\ Main(p, pl)
    \/ FindComment(p)
    \/ ListFails(p)
    \/ CreateComment(p)
    \/ UpdateComment(p)
    \/ WriteFails(p)

SpecRace == Init /\ [][NextRace]_vars

\* The comments users have written on the submissions, in the order they wrote
\* them: up to MaxListed, each on one of the submissions, naming the bot or not.
UserListings ==
  UNION { { [i \in 1 .. k |-> [id |-> i, number |-> f[i][1], user |-> "user",
                               body |-> f[i][2]]] :
              f \in [1 .. k -> Items \X UserBodies] } :
          k \in 0 .. MaxListed }

\* A caller calling postComment again and again on submissions that users have
\* commented on before.
InitLookup ==
  /\ comments \in UserListings
  /\ reviews = << >>
  /\ nextId = Len(comments) + 1
  /\ InitProcs

NextLookup ==
  \/ \E n \in Items : \E msg \in PostMessages(KindOf(n)) : PostComment(1, KindOf(n), n, msg)
  \/ FindComment(1)
  \/ ListFails(1)
  \/ CreateComment(1)
  \/ UpdateComment(1)
  \/ WriteFails(1)

SpecLookup == InitLookup /\ [][NextLookup]_vars

\* ----------------------------------------------------------------- claims

\* The comments and reviews of a submission that contain the identity marker.
StatusCount(number) ==
  Len(SelectSeq(comments,
        LAMBDA c : c.number = number /\ BodyIncludes(c.body, messageIdMetaTag)))
  + Len(SelectSeq(reviews,
        LAMBDA r : r.number = number /\ BodyIncludes(r.body, messageIdMetaTag)))

\* C1: through any sequence of invocations that do not overlap, on submissions
\* that start with no comment holding the identity marker, every submission
\* holds at most one comment with the identity marker at every moment.
C1_AtMostOneStatusComment == \A n \in Items : StatusCount(n) <= 1

\* C2 (as claimed): when a postComment call returns after a call for the same
\* submission with the same body has returned, the submission holds exactly
\* one status comment, and the second call has updated it.
C2_TwoCallsOneComment ==
  [][\A p \in Procs :
       ( /\ pc[p] = "write" /\ pc'[p] = "done" /\ outcome'[p] = "success"
         /\ lastPost[p] = << Call(itemType[p], item[p], message[p]) >> )
       => ( /\ StatusCount(item[p])' = 1
            /\ writes'[p][1].op = "update" )]_vars

\* The lookup of the postComment call of p has returned.
LookupReturned(p) ==
  \/ pc[p] = "write"
  \/ pc[p] = "done" /\ failure[p] # "listComments failed"

\* C3: a postComment call never calls more than one platform write, and once
\* its lookup has returned and the call has ended it has called exactly one:
\* an update when the lookup found a comment, a create when it found none.
C3_ExactlyOneWrite ==
  \A p \in Procs :
    /\ Len(writes[p]) <= 1
    /\ (pc[p] = "done" /\ LookupReturned(p)) =>
         /\ Len(writes[p]) = 1
         /\ writes[p][1].op = IF found[p] = << >> THEN "create" ELSE "update"

\* A call that found a comment and updated it, after a call that created one.
C3_Witness ==
  /\ pc[1] = "done" /\ outcome[1] = "success"
  /\ found[1] # << >> /\ writes[1][1].op = "update"
  /\ \E i \in DOMAIN comments :
       comments[i].id = found[1][1] /\ comments[i].user = "bot"

\* The event is one main acts on: opened, reopened or edited, with an issue or
\* a pull request.
Relevant(pl) ==
  /\ pl.action \in {"opened", "reopened", "edited"}
  /\ pl.issue.defined \/ pl.pull_request.defined

\* C4 (as claimed): an invocation for a relevant event with a sender whose
\* platform calls all succeeded has written exactly one comment body when it
\* ends, for an issue and for a pull request alike.
C4_OneBodyWritten ==
  \A p \in Procs :
    (pc[p] = "done" /\ Relevant(payload[p]) /\ payload[p].sender
       /\ outcome[p] = "success")
    => (Len(writes[p]) = 1 /\ writes[p][1].ok)

\* What invocation p holds.
Locals(p) ==
  << pc[p], payload[p], itemType[p], item[p], itemBody[p], message[p], page[p],
     found[p], checks[p], writes[p], outcome[p], failure[p] >>

\* C5: a step of an invocation whose event is not relevant (another action, or
\* neither an issue nor a pull request) ends the invocation successfully, with
\* no platform write called and every comment and review as it was.
C5_IrrelevantEventNoWrite ==
  [][\A p \in Procs :
       (~Relevant(payload'[p]) /\ Locals(p)' # Locals(p))
       => ( /\ pc'[p] = "done" /\ outcome'[p] = "success"
            /\ writes'[p] = << >>
            /\ platform' = platform )]_vars

\* An invocation for a labeled issue has ended, on a submission with a comment.
C5_Witness ==
  /\ pc[1] = "done" /\ outcome[1] = "success"
  /\ payload[1].action = "labeled" /\ payload[1].issue.defined
  /\ comments # << >> /\ writes[1] = << >>

\* C6 (as claimed): an invocation whose event has no sender ends as a failure
\* with a failure message and no platform write, whatever the action and the
\* payload.
C6_NoSenderAlwaysFails ==
  \A p \in Procs :
    (pc[p] = "done" /\ ~payload[p].sender)
    => (outcome[p] = "failed" /\ failure[p] # "" /\ writes[p] = << >>)

\* C6 (amended): an invocation whose event is relevant and has no sender ends
\* as a failure with the message 'No sender provided by GitHub.' and no
\* platform write.
C6_NoSenderFails ==
  \A p \in Procs :
    (pc[p] = "done" /\ ~payload[p].sender /\ Relevant(payload[p]))
    => ( /\ outcome[p] = "failed"
         /\ failure[p] = "No sender provided by GitHub."
         /\ writes[p] = << >> )

\* An edited issue without a sender has failed.
C6_Witness ==
  /\ pc[1] = "done" /\ outcome[1] = "failed"
  /\ ~payload[1].sender /\ payload[1].action = "edited" /\ payload[1].issue.defined
  /\ writes[1] = << >>

\* The body has the i-th headline of the template: a line '### <title>'.
HasHeadline(body, tpl, i) ==
  \E k \in DOMAIN body :
    /\ body[k].kind = "headline"
    /\ body[k].hashes >= 3
    /\ body[k].title = template[tpl].headlines[i].title

AllHeadlines(body, tpl) ==
  \A i \in DOMAIN template[tpl].headlines : HasHeadline(body, tpl, i)

\* The i-th required checkbox of the template is checked in the body.
BoxChecked(body, tpl, i) ==
  \E k \in DOMAIN body :
    /\ body[k].kind = "checkbox"
    /\ body[k].label = template[tpl].checkboxes[i].label
    /\ body[k].mark \in {"x", "X"}
    /\ body[k].lsp <= 1 /\ body[k].rsp <= 1

AllChecked(body, tpl) ==
  \A i \in DOMAIN template[tpl].checkboxes : BoxChecked(body, tpl, i)

HasPlaceholder(body) == IncludesWord(body, "FILL_THIS_OUT")

\* The subtype of a body: that of the first template whose opening headline it
\* has.
SubtypeOf(body) ==
  IF HasHeadline(body, "bug", 1) THEN "bug"
  ELSE IF HasHeadline(body, "feature", 1) THEN "feature"
  ELSE Undefined

\* The body lacks a required headline of its template (or the opening headline
\* of every template).
LacksHeadline(body) ==
  SubtypeOf(body) = Undefined \/ ~AllHeadlines(body, SubtypeOf(body))

\* Invocation p, for an issue, has ended successfully.
IssueDone(p) ==
  /\ pc[p] = "done" /\ outcome[p] = "success"
  /\ Relevant(payload[p]) /\ itemType[p] = ItemType.issue

\* The notices of a comment body: its paragraphs other than the marker, the
\* greeting and the closing note.
Notices(body) ==
  { body[i] : i \in DOMAIN body } \ { MetaTag, Greeting("issue"), BetaNote }

\* Invocation p has written one body, the platform holds it in the comment
\* written, and its notices are these.
Wrote(p, notices) ==
  /\ Len(writes[p]) = 1
  /\ Notices(writes[p][1].body) = notices
  /\ \E i \in DOMAIN comments :
       comments[i].id = writes[p][1].id /\ comments[i].body = writes[p][1].body

\* C7: for an issue whose body lacks a required headline of its template, the
\* body written is the "missing template" response: the template notice and
\* no other notice, whatever boxes are checked and with or without the
\* placeholder.
C7_MissingTemplate ==
  \A p \in Procs :
    (IssueDone(p) /\ LacksHeadline(itemBody[p])) => Wrote(p, { TemplateNotice })

\* A bug report that lacks a headline, with every box checked and no
\* placeholder, got the missing-template response.
C7_Witness ==
  /\ IssueDone(1)
  /\ SubtypeOf(itemBody[1]) = "bug" /\ ~AllHeadlines(itemBody[1], "bug")
  /\ AllChecked(itemBody[1], "bug") /\ ~HasPlaceholder(itemBody[1])
  /\ Wrote(1, { TemplateNotice })

\* C8: for an issue whose body has every required headline of its subtype and
\* leaves a required checkbox of that subtype unchecked, the body written is
\* the "checkboxes incomplete" response, and it holds the security reminder.
C8_CheckboxesIncomplete ==
  \A p \in Procs :
    (IssueDone(p) /\ ~LacksHeadline(itemBody[p])
       /\ ~AllChecked(itemBody[p], SubtypeOf(itemBody[p])))
    => ( /\ Wrote(p, { CheckboxNotice, SecurityReminder })
         /\ \E i \in DOMAIN writes[p][1].body : writes[p][1].body[i] = SecurityReminder )

\* A feature request with every headline and an unchecked box got the
\* checkboxes-incomplete response.
C8_Witness ==
  /\ IssueDone(1)
  /\ SubtypeOf(itemBody[1]) = "feature" /\ AllHeadlines(itemBody[1], "feature")
  /\ ~BoxChecked(itemBody[1], "feature", 2)
  /\ Wrote(1, { CheckboxNotice, SecurityReminder })

\* The notice of the "fields incomplete" response.
FieldsNotice == [part |-> "requireFields"]

\* C9 (as claimed): for an issue whose body passes the headline check and the
\* checkbox check and holds the placeholder FILL_THIS_OUT, the body written is
\* the "fields incomplete" response and not the success response.
C9_FieldsIncomplete ==
  \A p \in Procs :
    (IssueDone(p) /\ ~LacksHeadline(itemBody[p])
       /\ AllChecked(itemBody[p], SubtypeOf(itemBody[p]))
       /\ HasPlaceholder(itemBody[p]))
    => Wrote(p, { FieldsNotice })

\* The note of the success response for a subtype.
SuccessNote(tpl) == IF tpl = "bug" THEN SuggestPrNote ELSE ExcitedNote

\* The body has every headline and every checked box of the template and no
\* placeholder.
Complete(body, tpl) ==
  AllHeadlines(body, tpl) /\ AllChecked(body, tpl) /\ ~HasPlaceholder(body)

\* C10 (as claimed): for an issue whose body is complete for some subtype, the
\* body is classified as that subtype and the success response of that subtype
\* is written, also when it has headlines of another subtype.
C10_CompleteSucceeds ==
  \A p \in Procs : \A tpl \in {"bug", "feature"} :
    (IssueDone(p) /\ Complete(itemBody[p], tpl))
    => (getItemIssueType(itemBody[p]) = tpl /\ Wrote(p, { SuccessNote(tpl) }))

\* C10 (amended): the same for a body that is complete for the bug subtype, or
\* complete for the feature subtype and without the opening headline of the
\* bug template.
C10_CompleteClassifiedSucceeds ==
  \A p \in Procs : \A tpl \in {"bug", "feature"} :
    (IssueDone(p) /\ Complete(itemBody[p], tpl)
       /\ (tpl = "feature" => ~HasHeadline(itemBody[p], "bug", 1)))
    => (getItemIssueType(itemBody[p]) = tpl /\ Wrote(p, { SuccessNote(tpl) }))

\* A complete bug report that also has the opening headline of the feature
\* template got the success response of a bug report.
C10_Witness ==
  /\ IssueDone(1)
  /\ Complete(itemBody[1], "bug") /\ HasHeadline(itemBody[1], "feature", 1)
  /\ Wrote(1, { SuggestPrNote })

\* The body of invocation p passed the headline check and the checkbox check.
PassedChecks(p) ==
  /\ ~LacksHeadline(itemBody[p])
  /\ AllChecked(itemBody[p], SubtypeOf(itemBody[p]))

\* The comment body has that paragraph.
HasPart(body, part) == \E i \in DOMAIN body : body[i] = part

\* C11: the success response (written for an issue that passed the checks)
\* holds the pull-request suggestion exactly when the body is a bug report and
\* the encouragement note exactly when it is a feature request, never both,
\* and neither the template notice nor the checkbox notice.
C11_SuccessNotes ==
  \A p \in Procs :
    (IssueDone(p) /\ PassedChecks(p)) =>
      /\ Len(writes[p]) = 1
      /\ HasPart(writes[p][1].body, SuggestPrNote) <=> (SubtypeOf(itemBody[p]) = "bug")
      /\ HasPart(writes[p][1].body, ExcitedNote) <=> (SubtypeOf(itemBody[p]) = "feature")
      /\ ~(HasPart(writes[p][1].body, SuggestPrNote) /\ HasPart(writes[p][1].body, ExcitedNote))
      /\ ~HasPart(writes[p][1].body, TemplateNotice)
      /\ ~HasPart(writes[p][1].body, CheckboxNotice)
      /\ ~HasPart(writes[p][1].body, SecurityReminder)

\* A complete feature request got the encouragement note and no suggestion.
C11_Witness ==
  /\ IssueDone(1) /\ PassedChecks(1)
  /\ SubtypeOf(itemBody[1]) = "feature"
  /\ Len(writes[1]) = 1
  /\ HasPart(writes[1][1].body, ExcitedNote)
  /\ ~HasPart(writes[1][1].body, SuggestPrNote)

\* No platform call of invocation p failed.
PlatformOk(p) ==
  /\ failure[p] # "listComments failed"
  /\ \A i \in DOMAIN writes[p] : writes[p][i].ok

\* C12: an invocation for a relevant issue event with a sender whose body has
\* the opening headline of no template, and whose platform calls succeeded,
\* has evaluated no check, has written the "missing template" response exactly
\* once, and has ended successfully.
C12_UndeterminedSubtype ==
  \A p \in Procs :
    ( /\ pc[p] = "done" /\ Relevant(payload[p]) /\ payload[p].sender
      /\ itemType[p] = ItemType.issue
      /\ SubtypeOf(itemBody[p]) = Undefined
      /\ PlatformOk(p) )
    => ( /\ outcome[p] = "success"
         /\ checks[p] = << >>
         /\ Wrote(p, { TemplateNotice }) )

\* An issue with the body 'random text' got the missing-template response.
C12_Witness ==
  /\ pc[1] = "done" /\ outcome[1] = "success"
  /\ itemType[1] = ItemType.issue
  /\ itemBody[1] = << TextLine("random text") >>
  /\ checks[1] = << >>
  /\ Wrote(1, { TemplateNotice })

\* C13: when the listing of an invocation fails, the invocation ends as a
\* failure reporting that error with no write called and the platform as it
\* was; when its create or update fails, it ends as a failure reporting the
\* error with that one write called and no other; and an invocation that has
\* failed calls nothing more: the next step of its process is a new invocation.
C13_PlatformFailure ==
  [][\A p \in Procs :
       /\ (pc[p] = "find" /\ pc'[p] = "done")
            => ( /\ outcome'[p] = "failed"
                 /\ failure'[p] = "listComments failed"
                 /\ writes'[p] = << >>
                 /\ platform' = platform )
       /\ (pc[p] = "write" /\ pc'[p] = "done" /\ ~writes'[p][Len(writes'[p])].ok)
            => ( /\ outcome'[p] = "failed"
                 /\ failure'[p] # ""
                 /\ Len(writes'[p]) = 1
                 /\ reviews' = reviews
                 /\ Len(comments') = Len(comments) )
       /\ (pc[p] = "done" /\ outcome[p] = "failed")
            => ( /\ writes'[p] \in { writes[p], << >> }
                 /\ pc'[p] \in {"done", "find"}
                 /\ pc'[p] = "find" => (writes'[p] = << >> /\ page'[p] = 0) )]_vars

\* The update of the status comment failed: the invocation has failed with
\* that one write, and the comment is still there.
C13_Witness ==
  /\ pc[1] = "done" /\ outcome[1] = "failed" /\ failure[1] = "write failed"
  /\ Len(writes[1]) = 1 /\ writes[1][1].op = "update" /\ ~writes[1][1].ok
  /\ StatusCount(item[1]) = 1

\* The comments of a submission that hold the identity marker.
StatusComments(number) ==
  SelectSeq(comments,
            LAMBDA c : c.number = number /\ BodyIncludes(c.body, messageIdMetaTag))

\* The notices of the response to an issue body.
ExpectedNotices(body) ==
  IF LacksHeadline(body) THEN { TemplateNotice }
  ELSE IF ~AllChecked(body, SubtypeOf(body)) THEN { CheckboxNotice, SecurityReminder }
  ELSE { SuccessNote(SubtypeOf(body)) }

\* C14: after every successfully completed invocation for a relevant issue
\* event, the issue has one status comment and its body is the response this
\* invocation composed for the issue's current body: nothing of the previous
\* text is left, whatever the previous and the current outcome.
C14_Overwritten ==
  \A p \in Procs :
    IssueDone(p) =>
      /\ Len(StatusComments(item[p])) = 1
      /\ StatusComments(item[p])[1].body = MainPlan(payload[p]).message
      /\ Notices(StatusComments(item[p])[1].body) = ExpectedNotices(itemBody[p])
      /\ Len(StatusComments(item[p])[1].body)
           = 3 + Cardinality(ExpectedNotices(itemBody[p]))

\* The composer was called with flags and returned a message.
Composed(p) == flags[p] # << >> /\ message[p] # << >>

\* C15: every body composed, for every combination of flags, and every body
\* an invocation writes contains the text the lookup of postComment searches
\* for; so a lookup on an issue that has a status comment returns the status
\* comment, and the write that follows is an update of it.
C15_MarkerInEveryBody ==
  \A p \in Procs :
    /\ Composed(p) => BodyIncludes(message[p], BotSearchText)
    /\ \A i \in DOMAIN writes[p] : BodyIncludes(writes[p][i].body, BotSearchText)
    /\ (pc[p] = "write" /\ StatusCount(item[p]) >= 1)
         => found[p] = << StatusComments(item[p])[1].id >>

\* The reviews of a pull request that hold the identity marker.
StatusReviews(number) ==
  SelectSeq(reviews,
            LAMBDA r : r.number = number /\ BodyIncludes(r.body, messageIdMetaTag))

\* C16 (as claimed): an update of an issue comment is called with the
\* identifier of an issue comment, an update of a review with the identifier
\* of a review; and the lookup of a postComment call for a pull request that
\* has a status review returns that review.
C16_UpdateMatchesKind ==
  \A p \in Procs :
    /\ \A i \in DOMAIN writes[p] :
         writes[p][i].op = "update" =>
           IF writes[p][i].kind = "comment"
           THEN HasId(comments, writes[p][i].id)
           ELSE HasId(reviews, writes[p][i].id)
    /\ (pc[p] = "write" /\ itemType[p] = ItemType.pr /\ StatusReviews(item[p]) # << >>)
         => found[p] = << StatusReviews(item[p])[1].id >>

\* C17: with two invocations for the same issue overlapping, a lookup that
\* returns while the issue has a status comment finds a comment, and the issue
\* never has more status comments than there are invocations; two status
\* comments come from two lookups that both returned before either create
\* (C17_Witness is that state).
C17_RaceCreatesTwo ==
  [][\A p \in Procs :
       /\ (pc[p] = "find" /\ pc'[p] = "write" /\ StatusCount(item[p]) >= 1)
            => found'[p] # << >>
       /\ StatusCount(item[p])' <= Cardinality(Procs)
       /\ (StatusCount(item[p])' = 2 /\ pc'[p] = "done" /\ outcome'[p] = "success")
            => writes'[p][1].op = "create"]_vars

\* Both lookups found no status comment and both invocations created one: the
\* issue has two comments holding the identity marker.
C17_Witness ==
  /\ \A p \in Procs :
       /\ pc[p] = "done" /\ outcome[p] = "success"
       /\ found[p] = << >>
       /\ Len(writes[p]) = 1 /\ writes[p][1].op = "create" /\ writes[p][1].ok
  /\ item[1] = item[2]
  /\ StatusCount(item[1]) = 2

\* The checks a strict gate of headline, checkbox and placeholder check
\* evaluates on a body of a determined subtype.
GateChecks(body) ==
  IF ~AllHeadlines(body, SubtypeOf(body)) THEN << "headlines" >>
  ELSE IF ~AllChecked(body, SubtypeOf(body)) THEN << "headlines", "checkboxes" >>
  ELSE << "headlines", "checkboxes", "placeholder" >>

\* C18 (as claimed): an invocation for an issue of a determined subtype has
\* evaluated the headline check, then the checkbox check if the headlines
\* passed, then the placeholder check if the checkboxes passed, and nothing
\* after the first check that failed; and it has called postComment at most
\* once.
C18_CheckOrder ==
  \A p \in Procs :
    ( /\ pc[p] = "done" /\ Relevant(payload[p]) /\ payload[p].sender
      /\ itemType[p] = ItemType.issue
      /\ SubtypeOf(itemBody[p]) # Undefined )
    => ( /\ checks[p] = GateChecks(itemBody[p])
         /\ Len(writes[p]) <= 1 )

\* C19: the classification of an issue body is bug whenever the body has the
\* opening headline of the bug template, feature exactly when it has the
\* opening headline of the feature template and not that of the bug template,
\* and undetermined exactly when it has neither.
C19_Classification ==
  \A p \in Procs :
    (pc[p] = "done" /\ Relevant(payload[p]) /\ payload[p].sender
       /\ itemType[p] = ItemType.issue)
    => ( /\ HasHeadline(itemBody[p], "bug", 1)
              => getItemIssueType(itemBody[p]) = ItemIssueType.bug
         /\ (getItemIssueType(itemBody[p]) = ItemIssueType.feature)
              <=> ( /\ HasHeadline(itemBody[p], "feature", 1)
                    /\ ~HasHeadline(itemBody[p], "bug", 1) )
         /\ (getItemIssueType(itemBody[p]) = Undefined)
              <=> ( /\ ~HasHeadline(itemBody[p], "feature", 1)
                    /\ ~HasHeadline(itemBody[p], "bug", 1) ) )

\* A body with the opening headlines of both templates and every headline of
\* the feature template was classified as a bug report: the response is the
\* template notice, for the bug headlines it lacks.
C19_Witness ==
  /\ IssueDone(1)
  /\ HasHeadline(itemBody[1], "bug", 1)
  /\ AllHeadlines(itemBody[1], "feature")
  /\ ~AllHeadlines(itemBody[1], "bug")
  /\ getItemIssueType(itemBody[1]) = ItemIssueType.bug
  /\ Wrote(1, { TemplateNotice })

\* The flag of that name is set in the flags object.
FlagSet(f, name) == name \in DOMAIN f /\ f[name]

\* The paragraph, if the flag is set.
If(flag, paragraphs) == IF flag THEN paragraphs ELSE << >>

\* The body as claimed: greeting, the paragraphs of the flags set in the fixed
\* order, the disclaimer, and the identity marker last.
ClaimedBody(f, type) ==
  << Greeting(IF type = ItemType.issue THEN "issue" ELSE "pull request") >>
    \o If(FlagSet(f, "requireTemplate"), << TemplateNotice >>)
    \o If(FlagSet(f, "requireCheckboxes"), << CheckboxNotice, SecurityReminder >>)
    \o If(FlagSet(f, "requireFields"), << FieldsNotice >>)
    \o If(FlagSet(f, "suggestPr"), << SuggestPrNote >>)
    \o If(FlagSet(f, "excitedFeature"), << ExcitedNote >>)
    \o << BetaNote >>
    \o << MetaTag >>

\* C20 (as claimed): for every combination of flags the composed body is the
\* greeting, then the paragraphs of the flags set, in the order template
\* notice, checkbox notice with security reminder, fields notice, pull-request
\* suggestion, encouragement note, then the disclaimer, then the identity
\* marker as the last element.
C20_ComposedBody ==
  \A p \in Procs :
    Composed(p) => message[p] = ClaimedBody(flags[p][1], itemType[p])

\* The positions in a listing of the comments that contain the text.
Matches(list, text) == { i \in DOMAIN list : BodyIncludes(list[i].body, text) }

\* The earliest of them.
FirstMatch(list, text) ==
  CHOOSE i \in Matches(list, text) : \A j \in Matches(list, text) : i <= j

\* The page a position of a listing is on, and the last page of a listing.
PageAt(i) == (i - 1) \div PerPage
LastPage(list) == IF list = << >> THEN 0 ELSE PageAt(Len(list))

\* C21: when the lookup of a postComment call has returned and comments of the
\* submission contain the searched text, it has returned the earliest of them
\* in the listing, from the page that comment is on, and an update that
\* follows is called for that comment; when no comment contains the text it
\* has gone through every page and returned nothing.
C21_FirstMatchWins ==
  \A p \in Procs :
    /\ pc[p] = "write" =>
         IF Matches(listComments(item[p]), BotSearchText) = {}
         THEN found[p] = << >> /\ page[p] = LastPage(listComments(item[p]))
         ELSE /\ found[p]
                   = << listComments(item[p])[FirstMatch(listComments(item[p]), BotSearchText)].id >>
              /\ page[p] = PageAt(FirstMatch(listComments(item[p]), BotSearchText))
    /\ (pc[p] = "done" /\ Len(writes[p]) = 1 /\ writes[p][1].op = "update")
         => writes[p][1].id
              = listComments(item[p])[FirstMatch(listComments(item[p]), BotSearchText)].id

\* Four comments on the issue, the third and the fourth containing the text:
\* the lookup went to the second page, the call has updated the third, and the
\* fourth is as the user wrote it.
C21_Witness ==
  /\ pc[1] = "done" /\ outcome[1] = "success"
  /\ Len(writes[1]) = 1 /\ writes[1][1].op = "update"
  /\ page[1] = 1
  /\ Len(listComments(item[1])) = 4
  /\ Matches(listComments(item[1]), BotSearchText) = {3, 4}
  /\ listComments(item[1])[3].id = writes[1][1].id
  /\ listComments(item[1])[3].body = writes[1][1].body
  /\ listComments(item[1])[4].body = << UserMention >>

\* C22 (as claimed): every update an invocation calls is for a comment that an
\* invocation created: never for a comment a user wrote, also not one whose
\* text contains 'parse-issue-bot'.
C22_OnlyOwnComment ==
  \A p \in Procs : \A i \in DOMAIN writes[p] :
    writes[p][i].op = "update" =>
      \A k \in DOMAIN comments :
        comments[k].id = writes[p][i].id => comments[k].user = "bot"

\* Every comment of the listing is in the new listing, at its place, as it was.
Kept(list, new) ==
  /\ Len(new) >= Len(list)
  /\ \A i \in DOMAIN list : new[i] = list[i]

\* The new listing is the listing with, at most, the body of the comment of
\* that identifier on that submission replaced by the body given.
OnlyBodyOf(list, new, id, number, body) ==
  /\ Len(new) = Len(list)
  /\ \A i \in DOMAIN list :
       \/ new[i] = list[i]
       \/ /\ list[i].id = id /\ list[i].number = number
          /\ new[i] = [list[i] EXCEPT !.body = body]

\* C23: the step in which an invocation calls its write changes at most one
\* comment. A create that succeeds adds one comment or review, on the
\* invocation's submission and with the message as body, and keeps every other
\* as it was; an update that succeeds changes only the body of the comment the
\* lookup returned, on the invocation's submission; a write that fails, and
\* every step of the lookup, changes nothing.
C23_WriteFrame ==
  [][\A p \in Procs :
       /\ (pc[p] = "find" /\ pc'[p] # "find") => platform' = platform
       /\ (pc[p] = "write" /\ pc'[p] = "done") =>
            /\ Len(writes'[p]) = 1
            /\ IF ~writes'[p][1].ok
               THEN comments' = comments /\ reviews' = reviews
               ELSE IF writes'[p][1].op = "create"
               THEN /\ Kept(comments, comments') /\ Kept(reviews, reviews')
                    /\ Len(comments') + Len(reviews') = Len(comments) + Len(reviews) + 1
                    /\ \A c \in { comments'[i] : i \in DOMAIN comments' \ DOMAIN comments }
                              \cup { reviews'[i] : i \in DOMAIN reviews' \ DOMAIN reviews } :
                         c.number = item[p] /\ c.body = message[p]
               ELSE /\ found[p] # << >>
                    /\ OnlyBodyOf(comments, comments', found[p][1], item[p], message[p])
                    /\ OnlyBodyOf(reviews, reviews', found[p][1], item[p], message[p])
                    /\ comments' = comments \/ reviews' = reviews]_vars

\* The status comment of the issue was updated; a user's comment on the same
\* issue and a user's comment on the pull request are as the users wrote them.
C23_Witness ==
  /\ pc[1] = "done" /\ outcome[1] = "success"
  /\ Len(writes[1]) = 1 /\ writes[1][1].op = "update" /\ writes[1][1].ok
  /\ \E i, j, k \in DOMAIN comments :
       /\ comments[i].id = writes[1][1].id /\ comments[i].user = "bot"
       /\ comments[i].body = writes[1][1].body
       /\ comments[j].number = item[1] /\ comments[j].body = << UserPlain >>
       /\ comments[k].number # item[1] /\ comments[k].body = << UserMention >>

====
